---- MODULE Spec2Model ----
(***************************************************************************)
(* Model of testscript.py: the helper layer (parse_response, usd_to_sats,  *)
(* get_ticker, place_market_buy_order, place_limit_buy_order,              *)
(* set_take_profit) and the linear order sequence of main.                 *)
(*                                                                         *)
(* Python values are tagged records.  The venue client (lnmarkets.rest) is *)
(* external: each call of it is answered by an outcome drawn from a        *)
(* bounded set, either a raised exception or a returned value.             *)
(* Floats are modelled by exact integers plus the two special values NaN   *)
(* and +Infinity; round() is Python's round-half-to-even.                  *)
(***************************************************************************)
EXTENDS Integers, Sequences, FiniteSets, TLC

VARIABLES
    USE_DIRECT_TAKE_PROFIT, \* static policy switch (module constant)
    pc,                     \* position of main
    market_price,           \* locals of main
    margin_sats,
    first_order,
    second_order,
    entry_price,
    tp_price,
    actual_tp_target,
    limit_price,
    limit_take_profit,
    limit_order,
    calls,                  \* trace of venue calls and sleeps, with outcomes
    fn,                     \* helper under unit exercise, its arguments, result
    args,
    ret,
    config,                 \* module globals set during startup
    LN_KEY,
    LN_SECRET,
    LN_PASSPHRASE,
    lnm,
    test_response,
    exit_status             \* status of sys.exit, Unset while running

vars == <<USE_DIRECT_TAKE_PROFIT, pc, market_price, margin_sats, first_order,
          second_order, entry_price, tp_price, actual_tp_target, limit_price,
          limit_take_profit, limit_order, calls, fn, args, ret, config,
          LN_KEY, LN_SECRET, LN_PASSPHRASE, lnm, test_response,
          exit_status>>

mainVars == <<USE_DIRECT_TAKE_PROFIT, pc, market_price, margin_sats,
              first_order, second_order, entry_price, tp_price,
              actual_tp_target, limit_price, limit_take_profit, limit_order,
              calls>>

\* the locals of main and the trace, without its position
mainLocals == <<USE_DIRECT_TAKE_PROFIT, market_price, margin_sats,
                first_order, second_order, entry_price, tp_price,
                actual_tp_target, limit_price, limit_take_profit, limit_order,
                calls>>

unitVars == <<fn, args, ret>>

startupVars == <<config, LN_KEY, LN_SECRET, LN_PASSPHRASE, lnm, test_response,
          exit_status>>

----
(* Bounds of the model *)

\* small integer prices 1..MaxSmallPrice are among the ticker prices
MaxSmallPrice == 2
\* list payloads have 0..MaxListLen items
MaxListLen == 1

(* Program constants *)
REQUEST_DELAY == 3
usd_amount == 5
SATS_PER_BTC == 100000000

----
(* Python values *)

None == [t |-> "none"]
NaN == [t |-> "nan"]
Inf == [t |-> "inf"]
Num(n) == [t |-> "num", n |-> n]
\* a str given by its characters
Str(s) == [t |-> "str", s |-> s]
\* a str whose text is the JSON serialisation of doc
Ser(doc) == [t |-> "json", doc |-> doc]
Dict(m) == [t |-> "dict", m |-> m]
List(items) == [t |-> "list", items |-> items]
EmptyDict == Dict([k \in {} |-> None])

\* a local of main not yet assigned
Unset == [t |-> "unset"]
\* pseudo-value: the evaluation raised an exception (subclass of Exception)
Exc == [t |-> "exc"]
\* outcome of a venue call that raises
Raise == [t |-> "raise"]

\* bool(v)
Truthy(v) ==
    CASE v.t = "none" -> FALSE
      [] v.t = "num"  -> v.n # 0
      [] v.t = "nan"  -> TRUE
      [] v.t = "inf"  -> TRUE
      [] v.t = "str"  -> v.s # <<>>
      [] v.t = "json" -> TRUE
      [] v.t = "dict" -> DOMAIN v.m # {}
      [] v.t = "list" -> Len(v.items) > 0

Digits == {"0", "1", "2", "3", "4", "5", "6", "7", "8", "9"}

DigitVal(c) ==
    CASE c = "0" -> 0 [] c = "1" -> 1 [] c = "2" -> 2 [] c = "3" -> 3
      [] c = "4" -> 4 [] c = "5" -> 5 [] c = "6" -> 6 [] c = "7" -> 7
      [] c = "8" -> 8 [] c = "9" -> 9

IsDigits(s) == Len(s) > 0 /\ \A i \in 1..Len(s) : s[i] \in Digits

RECURSIVE DigitsToNat(_)
DigitsToNat(s) ==
    IF s = <<>> THEN 0
    ELSE 10 * DigitsToNat(SubSeq(s, 1, Len(s) - 1)) + DigitVal(s[Len(s)])

\* an optionally signed run of decimal digits, as float() and json accept it
ParseInt(s) ==
    IF IsDigits(s) THEN Num(DigitsToNat(s))
    ELSE IF Len(s) > 1 /\ s[1] = "-" /\ IsDigits(Tail(s))
         THEN Num(0 - DigitsToNat(Tail(s)))
         ELSE Exc

\* float(v): TypeError / ValueError become Exc
PyFloat(v) ==
    CASE v.t \in {"num", "nan", "inf"} -> v
      [] v.t = "str" ->
            IF v.s = <<"n", "a", "n">> \/ v.s = <<"N", "a", "N">> THEN NaN
            ELSE IF v.s = <<"i", "n", "f">> THEN Inf
            ELSE ParseInt(v.s)
      [] OTHER -> Exc

\* json.loads(v): TypeError / JSONDecodeError become Exc
JsonLoads(v) ==
    CASE v.t = "json" -> v.doc
      [] v.t = "str" ->
            IF v.s = <<"N", "a", "N">> THEN NaN
            ELSE IF v.s = <<"n", "u", "l", "l">> THEN None
            ELSE ParseInt(v.s)
      [] OTHER -> Exc

\* round(a / b) for integers a and b > 0, ties to even
RoundHalfEven(a, b) ==
    LET q == a \div b
        r == a - q * b
    IN  IF 2 * r < b THEN q
        ELSE IF 2 * r > b THEN q + 1
        ELSE IF q % 2 = 0 THEN q ELSE q + 1

\* variant: int(v * 1.01), truncation instead of rounding
RoundTimes101_Trunc(v) ==
    IF v.t = "num" THEN Num((v.n * 101) \div 100) ELSE Exc

\* round(v * 1.01): TypeError for non-numbers, ValueError for NaN,
\* OverflowError for infinity
RoundTimes101(v) ==
    IF v.t = "num" THEN Num(RoundHalfEven(v.n * 101, 100)) ELSE Exc

\* round(v - 100)
RoundMinus100(v) ==
    IF v.t = "num" THEN Num(RoundHalfEven(v.n - 100, 1)) ELSE Exc

\* v.get(k, default): AttributeError unless v is a dict
Get(v, k, default) ==
    IF v.t # "dict" THEN Exc
    ELSE IF k \in DOMAIN v.m THEN v.m[k] ELSE default

----
(* Helper functions of the script *)

parse_response(response) ==
    IF response.t \in {"dict", "list"} THEN response
    ELSE LET r == JsonLoads(response)
         IN  IF r = Exc THEN EmptyDict ELSE r

\* int(round((usd / btc_price) * 1e8)) inside try; except returns 0
usd_to_sats_try(usd, btc_price) ==
    IF usd.t # "num" THEN Exc
    ELSE CASE btc_price.t = "num" ->
                IF btc_price.n = 0 THEN Exc
                ELSE IF btc_price.n > 0
                     THEN Num(RoundHalfEven(usd.n * SATS_PER_BTC, btc_price.n))
                     ELSE Num(RoundHalfEven(0 - usd.n * SATS_PER_BTC,
                                            0 - btc_price.n))
           [] btc_price.t = "inf" -> Num(0)
           [] OTHER -> Exc

usd_to_sats(usd, btc_price) ==
    LET r == usd_to_sats_try(usd, btc_price)
    IN  IF r = Exc THEN Num(0) ELSE r

\* price <= 0 on a float
LeZero(price) == price.t = "num" /\ price.n <= 0

get_ticker_try(outcome) ==
    IF outcome = Raise THEN Exc
    ELSE LET ticker == parse_response(outcome)
             last == Get(ticker, "lastPrice", Num(0))
             price == IF last = Exc THEN Exc ELSE PyFloat(last)
         IN  IF price = Exc THEN Exc
             ELSE IF LeZero(price) THEN Exc
             ELSE price

get_ticker(outcome) ==
    LET r == get_ticker_try(outcome)
    IN  IF r = Exc THEN None ELSE r

\* the request record of a market order (takeprofit only when given)
MarketParams(margin, leverage, takeprofit) ==
    LET params == [type |-> "m", side |-> "b", margin |-> margin,
                   leverage |-> leverage]
    IN  IF takeprofit # None
        THEN [takeprofit |-> takeprofit] @@ params
        ELSE params

\* the request record of a limit order
LimitParams(margin, leverage, price, takeprofit) ==
    LET params == [type |-> "l", side |-> "b", margin |-> margin,
                   leverage |-> leverage, price |-> price]
    IN  IF takeprofit # None
        THEN [takeprofit |-> takeprofit] @@ params
        ELSE params

\* the request record of a take-profit update
UpdateParams(trade_id, tp) ==
    [id |-> trade_id, type |-> "takeprofit", value |-> tp]

\* variant: the order is accepted when the key 'id' is present, whatever
\* its value
place_market_buy_order_try_AnyId(outcome) ==
    IF outcome = Raise THEN Exc
    ELSE LET order == parse_response(outcome)
         IN  IF order.t # "dict" THEN Exc
             ELSE IF "id" \in DOMAIN order.m THEN order ELSE None

\* the try block of place_market_buy_order after the request is built:
\* call the venue, normalise, keep the order only when order.get('id')
place_market_buy_order_try(outcome) ==
    IF outcome = Raise THEN Exc
    ELSE LET order == parse_response(outcome)
             id == Get(order, "id", None)
         IN  IF id = Exc THEN Exc
             ELSE IF Truthy(id) THEN order ELSE None

place_market_buy_order(outcome, margin, leverage, takeprofit) ==
    LET r == place_market_buy_order_try(outcome)
    IN  IF r = Exc THEN None ELSE r

\* the same for place_limit_buy_order
place_limit_buy_order_try(outcome) ==
    IF outcome = Raise THEN Exc
    ELSE LET order == parse_response(outcome)
             id == Get(order, "id", None)
         IN  IF id = Exc THEN Exc
             ELSE IF Truthy(id) THEN order ELSE None

place_limit_buy_order(outcome, margin, leverage, price, takeprofit) ==
    LET r == place_limit_buy_order_try(outcome)
    IN  IF r = Exc THEN None ELSE r

\* set_take_profit has no return statement; what it does with the venue's
\* answer is visible only as the level of the message it logs
set_take_profit_logged(outcome) ==
    IF outcome = Raise THEN "error"
    ELSE LET updated_order == parse_response(outcome)
             id == Get(updated_order, "id", None)
         IN  IF id = Exc THEN "error"
             ELSE IF Truthy(id) THEN "info" ELSE "error"

set_take_profit(outcome, trade_id, tp) == None

----
(* Venue outcomes *)

chars_t1 == <<"t", "1">>
chars_50000 == <<"5", "0", "0", "0", "0">>
chars_50010 == <<"5", "0", "0", "1", "0">>
chars_html == <<"<", "h", "t", "m", "l", ">">>
chars_nan == <<"n", "a", "n">>
chars_neg1 == <<"-", "1">>

\* all dicts over the optional keys of a set of key -> values pairs
DictsOver(keys, vals) ==
    UNION {{Dict(f) : f \in [K -> vals]} : K \in SUBSET keys}

Lists == {List([i \in 1..n |-> Num(1)]) : n \in 0..MaxListLen}

\* payloads that are no JSON object: lists, serialised lists, unparsable
\* text, text of a JSON scalar, a null body
NonObjects ==
    Lists \cup {Ser(List(<<>>)), Str(chars_html), Str(chars_50000), Str(<<>>),
                None}

PriceNums ==
    (-1..MaxSmallPrice) \cup {-50000, 50, 100, 150, 50000, 2000000000}

LastPriceVals ==
    {Num(n) : n \in PriceNums}
        \cup {None, NaN, Inf, Str(chars_50000), Str(chars_neg1),
              Str(chars_html), Str(chars_nan), Str(<<>>), List(<<>>)}

TickerDicts == DictsOver({"lastPrice"}, LastPriceVals)

TickerOutcomes ==
    {Raise} \cup TickerDicts \cup NonObjects
        \cup {Ser(Dict([lastPrice |-> Num(50000)])),
              Ser(Dict([lastPrice |-> Str(chars_50000)])),
              Ser(Dict([lastPrice |-> Num(0)]))}

IdVals == {None, Str(<<>>), Str(chars_t1)}

EntryVals == {None, Num(0), Num(50010), Str(<<>>), Str(chars_50010)}

OrderDicts ==
    UNION {{Dict(f) : f \in {g \in [K -> IdVals \cup EntryVals] :
                                /\ "id" \in K => g["id"] \in IdVals
                                /\ "entry_price" \in K
                                      => g["entry_price"] \in EntryVals}}
           : K \in SUBSET {"id", "entry_price"}}

TradeOutcomes ==
    {Raise} \cup OrderDicts \cup NonObjects
        \cup {Ser(Dict([id |-> Str(chars_t1), entry_price |-> Num(50010)])),
              Ser(Dict([entry_price |-> Num(50010)]))}

UpdateOutcomes ==
    {Raise, Dict([id |-> Str(chars_t1)]), Dict([id |-> Str(<<>>)]),
     EmptyDict, Ser(Dict([id |-> Str(chars_t1)])), Str(chars_html)}
        \cup Lists

----
(* The run of main *)

Call(op, params, outcome) == [op |-> op, params |-> params, outcome |-> outcome]
Sleep(secs) == [op |-> "sleep", secs |-> secs]
NoParams == [k \in {} |-> None]

chars_c == <<"c">>
chars_e == <<"e">>

\* a configuration file that supplies all three credentials
FullConfig ==
    Dict([key |-> Str(chars_c), secret |-> Str(chars_c),
          passphrase |-> Str(chars_c)])

\* the client object once rest.LNMarketsRest(**options) has returned
ClientReady == [t |-> "client"]

\* if not market_price: return
AfterTicker(price) == IF ~Truthy(price) THEN "Done" ELSE "ComputeMargin"

\* variant: a margin of 0 or less does not stop the run
AfterMargin_NoAbort(margin) == "PlaceOrder1"

\* if margin_sats <= 0: return
AfterMargin(margin) == IF margin.n <= 0 THEN "Done" ELSE "PlaceOrder1"

\* variant: the abort after a failed first order is missing
AfterFirstOrder_NoAbort(order) == "Delay1"

\* if not first_order: return
AfterFirstOrder(order) == IF ~Truthy(order) THEN "Done" ELSE "Delay1"

\* variant: the abort after a failed second order is missing
AfterSecondOrder_NoAbort(order) == "Delay2"

\* if not second_order: return
AfterSecondOrder(order) == IF ~Truthy(order) THEN "Done" ELSE "Delay2"

\* variant: the target for the log is taken from the pre-trade price
DirectEntryPrice_PreTrade(order, price) == price

\* second_order.get('entry_price', market_price) (direct branch)
DirectEntryPrice(order, price) == Get(order, "entry_price", price)

\* variant: "if entry_price is not None" instead of truthiness
HasEntryPrice_NotNone(entry) == entry # None

\* if entry_price: (deferred branch)
HasEntryPrice(entry) == Truthy(entry)

Init ==
    /\ USE_DIRECT_TAKE_PROFIT \in BOOLEAN
    /\ pc = "FetchPrice"
    /\ market_price = Unset
    /\ margin_sats = Unset
    /\ first_order = Unset
    /\ second_order = Unset
    /\ entry_price = Unset
    /\ tp_price = Unset
    /\ actual_tp_target = Unset
    /\ limit_price = Unset
    /\ limit_take_profit = Unset
    /\ limit_order = Unset
    /\ calls = <<>>
    /\ fn = "none"
    /\ args = <<>>
    /\ ret = None
    /\ config = FullConfig
    /\ LN_KEY = Str(chars_c)
    /\ LN_SECRET = Str(chars_c)
    /\ LN_PASSPHRASE = Str(chars_c)
    /\ lnm = ClientReady
    /\ test_response = Dict([lastPrice |-> Num(50000)])
    /\ exit_status = Unset

\* market_price = get_ticker(lnm); if not market_price: return
FetchPrice ==
    /\ pc = "FetchPrice"
    /\ \E o \in TickerOutcomes :
          /\ market_price' = get_ticker(o)
          /\ calls' = Append(calls, Call("get_ticker", NoParams, o))
    /\ pc' = AfterTicker(market_price')
    /\ UNCHANGED <<USE_DIRECT_TAKE_PROFIT, margin_sats, first_order,
                   second_order, entry_price, tp_price, actual_tp_target,
                   limit_price, limit_take_profit, limit_order>>
    /\ UNCHANGED unitVars
    /\ UNCHANGED startupVars

\* margin_sats = usd_to_sats(usd_amount, market_price);
\* if margin_sats <= 0: return
ComputeMargin ==
    /\ pc = "ComputeMargin"
    /\ margin_sats' = usd_to_sats(Num(usd_amount), market_price)
    /\ pc' = AfterMargin(margin_sats')
    /\ UNCHANGED <<USE_DIRECT_TAKE_PROFIT, market_price, first_order,
                   second_order, entry_price, tp_price, actual_tp_target,
                   limit_price, limit_take_profit, limit_order, calls>>
    /\ UNCHANGED unitVars
    /\ UNCHANGED startupVars

\* first_order = place_market_buy_order(lnm, margin_sats, 1);
\* if not first_order: return
PlaceOrder1 ==
    /\ pc = "PlaceOrder1"
    /\ \E o \in TradeOutcomes :
          /\ first_order' = place_market_buy_order(o, margin_sats, Num(1), None)
          /\ calls' = Append(calls,
                Call("new_trade", MarketParams(margin_sats, Num(1), None), o))
    /\ pc' = AfterFirstOrder(first_order')
    /\ UNCHANGED <<USE_DIRECT_TAKE_PROFIT, market_price, margin_sats,
                   second_order, entry_price, tp_price, actual_tp_target,
                   limit_price, limit_take_profit, limit_order>>
    /\ UNCHANGED unitVars
    /\ UNCHANGED startupVars

\* time.sleep(REQUEST_DELAY) after the first order
Delay1 ==
    /\ pc = "Delay1"
    /\ calls' = Append(calls, Sleep(REQUEST_DELAY))
    /\ pc' = "PlaceOrder2"
    /\ UNCHANGED <<USE_DIRECT_TAKE_PROFIT, market_price, margin_sats,
                   first_order, second_order, entry_price, tp_price,
                   actual_tp_target, limit_price, limit_take_profit,
                   limit_order>>
    /\ UNCHANGED unitVars
    /\ UNCHANGED startupVars

\* the direct branch: take-profit sent with the order, the entry-price based
\* target computed for the log only
PlaceOrder2Direct ==
    /\ pc = "PlaceOrder2"
    /\ USE_DIRECT_TAKE_PROFIT
    /\ LET tp == RoundTimes101(market_price)
       IN  IF tp = Exc
           THEN /\ pc' = "Raised"
                /\ UNCHANGED <<second_order, entry_price, tp_price,
                               actual_tp_target, calls>>
           ELSE \E o \in TradeOutcomes :
                  LET second == place_market_buy_order(o, margin_sats,
                                                       Num(1), tp)
                      entry == DirectEntryPrice(second, market_price)
                      target == RoundTimes101(entry)
                  IN  /\ tp_price' = tp
                      /\ second_order' = second
                      /\ calls' = Append(calls,
                            Call("new_trade",
                                 MarketParams(margin_sats, Num(1), tp), o))
                      /\ IF Truthy(second)
                         THEN /\ entry_price' = entry
                              /\ actual_tp_target' =
                                    IF target = Exc THEN actual_tp_target
                                    ELSE target
                              /\ pc' = IF target = Exc THEN "Raised"
                                       ELSE AfterSecondOrder(second)
                         ELSE /\ pc' = AfterSecondOrder(second)
                              /\ UNCHANGED <<entry_price, actual_tp_target>>
    /\ UNCHANGED <<USE_DIRECT_TAKE_PROFIT, market_price, margin_sats,
                   first_order, limit_price, limit_take_profit, limit_order>>
    /\ UNCHANGED unitVars
    /\ UNCHANGED startupVars

\* the deferred branch: order without take-profit, then set_take_profit when
\* the response carries a truthy entry_price
PlaceOrder2Deferred ==
    /\ pc = "PlaceOrder2"
    /\ ~USE_DIRECT_TAKE_PROFIT
    /\ \E o \in TradeOutcomes :
          LET second == place_market_buy_order(o, margin_sats, Num(1), None)
              entry == Get(second, "entry_price", None)
              tp == RoundTimes101(entry)
          IN  /\ second_order' = second
              /\ calls' = Append(calls,
                    Call("new_trade",
                         MarketParams(margin_sats, Num(1), None), o))
              /\ IF Truthy(second)
                 THEN /\ entry_price' = entry
                      /\ IF HasEntryPrice(entry)
                         THEN /\ tp_price' = IF tp = Exc THEN tp_price ELSE tp
                              /\ pc' = IF tp = Exc THEN "Raised"
                                       ELSE "SetTakeProfit"
                         ELSE /\ pc' = AfterSecondOrder(second)
                              /\ UNCHANGED tp_price
                 ELSE /\ pc' = AfterSecondOrder(second)
                      /\ UNCHANGED <<entry_price, tp_price>>
    /\ UNCHANGED <<USE_DIRECT_TAKE_PROFIT, market_price, margin_sats,
                   first_order, actual_tp_target, limit_price,
                   limit_take_profit, limit_order>>
    /\ UNCHANGED unitVars
    /\ UNCHANGED startupVars

\* variant: a failed update is tried again
SetTakeProfit_Retry ==
    /\ pc = "SetTakeProfit"
    /\ \E o \in UpdateOutcomes :
          /\ calls' = Append(calls,
                Call("update_trade",
                     UpdateParams(second_order.m["id"], tp_price), o))
          /\ pc' = IF set_take_profit_logged(o) = "error"
                   THEN "SetTakeProfit" ELSE "Delay2"
    /\ UNCHANGED <<USE_DIRECT_TAKE_PROFIT, market_price, margin_sats,
                   first_order, second_order, entry_price, tp_price,
                   actual_tp_target, limit_price, limit_take_profit,
                   limit_order>>
    /\ UNCHANGED unitVars
    /\ UNCHANGED startupVars

\* set_take_profit(lnm, second_order['id'], tp_price): its outcome is logged
\* and dropped, main goes on
SetTakeProfit ==
    /\ pc = "SetTakeProfit"
    /\ \E o \in UpdateOutcomes :
          calls' = Append(calls,
              Call("update_trade",
                   UpdateParams(second_order.m["id"], tp_price), o))
    /\ pc' = "Delay2"
    /\ UNCHANGED <<USE_DIRECT_TAKE_PROFIT, market_price, margin_sats,
                   first_order, second_order, entry_price, tp_price,
                   actual_tp_target, limit_price, limit_take_profit,
                   limit_order>>
    /\ UNCHANGED unitVars
    /\ UNCHANGED startupVars

\* time.sleep(REQUEST_DELAY) after the second order
Delay2 ==
    /\ pc = "Delay2"
    /\ calls' = Append(calls, Sleep(REQUEST_DELAY))
    /\ pc' = "PlaceOrder3"
    /\ UNCHANGED <<USE_DIRECT_TAKE_PROFIT, market_price, margin_sats,
                   first_order, second_order, entry_price, tp_price,
                   actual_tp_target, limit_price, limit_take_profit,
                   limit_order>>
    /\ UNCHANGED unitVars
    /\ UNCHANGED startupVars

\* the limit order 100 below the market price with its own take-profit;
\* main returns whatever the result
PlaceOrder3 ==
    /\ pc = "PlaceOrder3"
    /\ LET lp == RoundMinus100(market_price)
           ltp == IF lp = Exc THEN Exc ELSE RoundTimes101(lp)
       IN  IF ltp = Exc
           THEN /\ pc' = "Raised"
                /\ UNCHANGED <<limit_price, limit_take_profit, limit_order,
                               calls>>
           ELSE /\ limit_price' = lp
                /\ limit_take_profit' = ltp
                /\ \E o \in TradeOutcomes :
                      /\ limit_order' = place_limit_buy_order(o, margin_sats,
                                                             Num(1), lp, ltp)
                      /\ calls' = Append(calls,
                            Call("new_trade",
                                 LimitParams(margin_sats, Num(1), lp, ltp), o))
                /\ pc' = "Done"
    /\ UNCHANGED <<USE_DIRECT_TAKE_PROFIT, market_price, margin_sats,
                   first_order, second_order, entry_price, tp_price,
                   actual_tp_target>>
    /\ UNCHANGED unitVars
    /\ UNCHANGED startupVars

Next ==
    \/ FetchPrice
    \/ ComputeMargin
    \/ PlaceOrder1
    \/ Delay1
    \/ PlaceOrder2Direct
    \/ PlaceOrder2Deferred
    \/ SetTakeProfit
    \/ Delay2
    \/ PlaceOrder3

Spec == Init /\ [][Next]_vars

----
(* Module startup followed by main: the whole process *)

\* what yaml.load can give for configuration.yml: a mapping with any of the
\* three keys, one with an empty key, an empty file (None), a list
ConfigVals ==
    DictsOver({"key", "secret", "passphrase"}, {Str(chars_c)})
        \cup {Dict([key |-> Str(<<>>), secret |-> Str(chars_c),
                    passphrase |-> Str(chars_c)]),
              None, List(<<>>)}

\* open() or yaml.load raising, or the loaded document
ConfigOutcomes == {Raise} \cup ConfigVals

\* os.getenv of one variable
EnvVals == {None, Str(<<>>), Str(chars_e)}

\* the test call lnm.futures_get_ticker() of the startup
InitOutcomes == {Raise, Dict([lastPrice |-> Num(50000)])}

\* a or b
PyOr(a, b) == IF Truthy(a) THEN a ELSE b

\* config.get(name) or os.getenv(NAME)
KeyFrom(cfg, name, env) ==
    LET v == Get(cfg, name, None)
    IN  IF v = Exc THEN Exc ELSE PyOr(v, env)

\* variant: a missing credential does not stop the process
AfterKeyCheck_NoExit(k, s, p) == "InitClient"

\* if not all([LN_KEY, LN_SECRET, LN_PASSPHRASE]): sys.exit(1)
AfterKeyCheck(k, s, p) ==
    IF ~(Truthy(k) /\ Truthy(s) /\ Truthy(p)) THEN "Exited" ELSE "InitClient"

StartupInit ==
    /\ USE_DIRECT_TAKE_PROFIT \in BOOLEAN
    /\ pc = "LoadConfig"
    /\ market_price = Unset
    /\ margin_sats = Unset
    /\ first_order = Unset
    /\ second_order = Unset
    /\ entry_price = Unset
    /\ tp_price = Unset
    /\ actual_tp_target = Unset
    /\ limit_price = Unset
    /\ limit_take_profit = Unset
    /\ limit_order = Unset
    /\ calls = <<>>
    /\ fn = "none"
    /\ args = <<>>
    /\ ret = None
    /\ config = Unset
    /\ LN_KEY = Unset
    /\ LN_SECRET = Unset
    /\ LN_PASSPHRASE = Unset
    /\ lnm = Unset
    /\ test_response = Unset
    /\ exit_status = Unset

\* try: config = yaml.load(f, ...) except Exception: sys.exit(1)
LoadConfig ==
    /\ pc = "LoadConfig"
    /\ \E o \in ConfigOutcomes :
          IF o = Raise
          THEN /\ pc' = "Exited"
               /\ exit_status' = Num(1)
               /\ UNCHANGED config
          ELSE /\ pc' = "ResolveKeys"
               /\ config' = o
               /\ UNCHANGED exit_status
    /\ UNCHANGED <<LN_KEY, LN_SECRET, LN_PASSPHRASE, lnm, test_response>>
    /\ UNCHANGED mainLocals
    /\ UNCHANGED unitVars

\* the three credentials from the configuration or the environment, then
\* the presence check; config.get on a document that is no mapping raises
\* outside any try block and ends the process with status 1
ResolveKeys ==
    /\ pc = "ResolveKeys"
    /\ \E ek \in EnvVals, es \in EnvVals, ep \in EnvVals :
          LET k == KeyFrom(config, "key", ek)
              sec == KeyFrom(config, "secret", es)
              p == KeyFrom(config, "passphrase", ep)
          IN  IF k = Exc
              THEN /\ pc' = "Exited"
                   /\ exit_status' = Num(1)
                   /\ UNCHANGED <<LN_KEY, LN_SECRET, LN_PASSPHRASE>>
              ELSE /\ LN_KEY' = k
                   /\ LN_SECRET' = sec
                   /\ LN_PASSPHRASE' = p
                   /\ pc' = AfterKeyCheck(k, sec, p)
                   /\ exit_status' = IF pc' = "Exited" THEN Num(1)
                                     ELSE exit_status
    /\ UNCHANGED <<config, lnm, test_response>>
    /\ UNCHANGED mainLocals
    /\ UNCHANGED unitVars

\* try: lnm = rest.LNMarketsRest(**options);
\*      test_response = lnm.futures_get_ticker()
\* except Exception: sys.exit(1)
InitClient ==
    /\ pc = "InitClient"
    /\ \E ctor_raises \in BOOLEAN, o \in InitOutcomes :
          IF ctor_raises
          THEN /\ pc' = "Exited"
               /\ exit_status' = Num(1)
               /\ UNCHANGED <<lnm, test_response>>
          ELSE /\ lnm' = ClientReady
               /\ IF o = Raise
                  THEN /\ pc' = "Exited"
                       /\ exit_status' = Num(1)
                       /\ UNCHANGED test_response
                  ELSE /\ pc' = "FetchPrice"
                       /\ test_response' = o
                       /\ UNCHANGED exit_status
    /\ UNCHANGED <<config, LN_KEY, LN_SECRET, LN_PASSPHRASE>>
    /\ UNCHANGED mainLocals
    /\ UNCHANGED unitVars

StartupNext ==
    \/ LoadConfig
    \/ ResolveKeys
    \/ InitClient
    \/ Next

StartupSpec == StartupInit /\ [][StartupNext]_vars

----
(* The helpers exercised one call at a time on bounded inputs *)

Payloads == TickerOutcomes \cup TradeOutcomes \cup UpdateOutcomes

UsdVals == {Num(usd_amount), Num(0), None, Str(chars_html)}

BtcPriceVals ==
    {Num(n) : n \in PriceNums}
        \cup {None, NaN, Inf, Str(chars_50000), Str(chars_html), List(<<>>)}

TakeProfitVals == {None, Num(50500)}

CallParseResponse ==
    /\ \E r \in Payloads \ {Raise} :
          /\ fn' = "parse_response"
          /\ args' = <<r>>
          /\ ret' = parse_response(r)
    /\ UNCHANGED mainVars
    /\ UNCHANGED startupVars

CallUsdToSats ==
    /\ \E u \in UsdVals, p \in BtcPriceVals :
          /\ fn' = "usd_to_sats"
          /\ args' = <<u, p>>
          /\ ret' = usd_to_sats(u, p)
    /\ UNCHANGED mainVars
    /\ UNCHANGED startupVars

CallGetTicker ==
    /\ \E o \in TickerOutcomes :
          /\ fn' = "get_ticker"
          /\ args' = <<o>>
          /\ ret' = get_ticker(o)
    /\ UNCHANGED mainVars
    /\ UNCHANGED startupVars

CallPlaceMarket ==
    /\ \E o \in TradeOutcomes, tp \in TakeProfitVals :
          /\ fn' = "place_market_buy_order"
          /\ args' = <<o, Num(10000), Num(1), tp>>
          /\ ret' = place_market_buy_order(o, Num(10000), Num(1), tp)
    /\ UNCHANGED mainVars
    /\ UNCHANGED startupVars

CallPlaceLimit ==
    /\ \E o \in TradeOutcomes, tp \in TakeProfitVals :
          /\ fn' = "place_limit_buy_order"
          /\ args' = <<o, Num(10000), Num(1), Num(49900), tp>>
          /\ ret' = place_limit_buy_order(o, Num(10000), Num(1), Num(49900), tp)
    /\ UNCHANGED mainVars
    /\ UNCHANGED startupVars

CallSetTakeProfit ==
    /\ \E o \in UpdateOutcomes :
          /\ fn' = "set_take_profit"
          /\ args' = <<o, Str(chars_t1), Num(50510)>>
          /\ ret' = set_take_profit(o, Str(chars_t1), Num(50510))
    /\ UNCHANGED mainVars
    /\ UNCHANGED startupVars

UnitNext ==
    \/ CallParseResponse
    \/ CallUsdToSats
    \/ CallGetTicker
    \/ CallPlaceMarket
    \/ CallPlaceLimit
    \/ CallSetTakeProfit

UnitSpec == Init /\ [][UnitNext]_vars

----
(* Properties *)

IsNewTrade(c) == c.op = "new_trade"
IsUpdateTrade(c) == c.op = "update_trade"
IsGetTicker(c) == c.op = "get_ticker"
NewTrades == SelectSeq(calls, IsNewTrade)
UpdateTrades == SelectSeq(calls, IsUpdateTrade)

\* the venue answered with a mapping (possibly serialised) whose 'id' is
\* present and neither null nor empty
RecordWithId(outcome) ==
    /\ outcome # Raise
    /\ LET r == parse_response(outcome)
       IN  /\ r.t = "dict"
           /\ "id" \in DOMAIN r.m
           /\ r.m["id"] \notin {None, Str(<<>>)}

\* some guarded step of main has yielded its failure sentinel
SentinelYielded ==
    \/ market_price = None
    \/ (margin_sats # Unset /\ margin_sats.n <= 0)
    \/ first_order = None
    \/ second_order = None

\* C1: once a guarded step of main has yielded the failure sentinel (no
\* price, margin <= 0, first or second order None) the run is at its end and
\* no venue call or sleep is added to the trace any more.
C1_AbortOnSentinel ==
    [][/\ SentinelYielded => calls' = calls
       /\ SentinelYielded' => pc' = "Done"]_vars

C1_Witness ==
    /\ pc = "Done"
    /\ second_order = None
    /\ Len(calls) = 4

\* C2: the order requests of a run are a prefix of <<market order without
\* take-profit, market order with take-profit exactly under the direct
\* policy, limit order with price and take-profit>>, at most three of them
\* and one ticker fetch, and order k+1 is only sent when the answer to order
\* k was a record with an identifier.
C2_OrderPrefix ==
    LET T == NewTrades
    IN  /\ Len(T) <= 3
        /\ Len(SelectSeq(calls, IsGetTicker)) <= 1
        /\ Len(T) >= 1 =>
              /\ T[1].params.type = "m"
              /\ DOMAIN T[1].params \cap {"takeprofit", "price"} = {}
        /\ Len(T) >= 2 =>
              /\ T[2].params.type = "m"
              /\ "price" \notin DOMAIN T[2].params
              /\ ("takeprofit" \in DOMAIN T[2].params)
                    <=> USE_DIRECT_TAKE_PROFIT
              /\ RecordWithId(T[1].outcome)
        /\ Len(T) >= 3 =>
              /\ T[3].params.type = "l"
              /\ {"takeprofit", "price"} \subseteq DOMAIN T[3].params
              /\ RecordWithId(T[2].outcome)

C2_Witness ==
    /\ pc = "Done"
    /\ USE_DIRECT_TAKE_PROFIT
    /\ Len(NewTrades) = 3

\* C3: both order functions return the normalised response exactly when it
\* is a mapping with a present, non-empty 'id', and None in every other
\* case; no exception leaves them.
C3_OrderIffId ==
    fn \in {"place_market_buy_order", "place_limit_buy_order"} =>
        /\ ret # Exc
        /\ IF RecordWithId(args[1])
           THEN ret = parse_response(args[1])
           ELSE ret = None

C3_Witness ==
    /\ fn = "place_market_buy_order"
    /\ args[1] = Dict([id |-> Str(<<>>), entry_price |-> Num(50010)])
    /\ ret = None

IsNumber(v) == v.t \in {"num", "nan", "inf"}

\* C4: usd_to_sats returns exactly 0 for every price <= 0 and for every
\* non-numeric argument.
C4_ZeroForBadPrice ==
    fn = "usd_to_sats" =>
        /\ ret # Exc
        /\ (\/ ~IsNumber(args[1])
            \/ ~IsNumber(args[2])
            \/ (args[2].t = "num" /\ args[2].n <= 0)) => ret = Num(0)

Absent == [t |-> "absent"]

\* the 'lastPrice' entry of a ticker outcome, Absent when there is none
LastPriceOf(outcome) ==
    IF outcome = Raise THEN Absent
    ELSE LET r == parse_response(outcome)
         IN  IF r.t = "dict" /\ "lastPrice" \in DOMAIN r.m
             THEN r.m["lastPrice"] ELSE Absent

StrictlyPositive(v) == v = Inf \/ (v.t = "num" /\ v.n > 0)

\* C5: get_ticker never raises; its result is None or a strictly positive
\* price equal to the numeric value of 'lastPrice'; it is None whenever
\* 'lastPrice' is absent, zero, negative or not convertible to a number.
C5_PositivePriceOrNone ==
    fn = "get_ticker" =>
        LET last == LastPriceOf(args[1])
            value == IF last = Absent THEN Exc ELSE PyFloat(last)
        IN  /\ ret # Exc
            /\ ret = None \/ (StrictlyPositive(ret) /\ ret = value)
            /\ (value = Exc \/ value = NaN \/ ~StrictlyPositive(value))
                  => ret = None

\* an entry price that is absent, null, zero or empty
NoUsableEntryPrice(order) ==
    Get(order, "entry_price", None) \in {None, Num(0), Str(<<>>)}

\* C6: under the deferred policy, when the second order succeeded and its
\* response has no usable entry price, no update_trade call is made and the
\* second order was created without a take-profit.
C6_NoUpdateWithoutEntryPrice ==
    (/\ ~USE_DIRECT_TAKE_PROFIT
     /\ second_order.t = "dict"
     /\ NoUsableEntryPrice(second_order)) =>
        /\ UpdateTrades = <<>>
        /\ "takeprofit" \notin DOMAIN NewTrades[2].params

C6_Witness ==
    /\ ~USE_DIRECT_TAKE_PROFIT
    /\ pc = "Done"
    /\ second_order.t = "dict"
    /\ entry_price = Num(0)
    /\ Len(NewTrades) = 3

\* C7: the two take-profit policies are never combined: under the direct
\* policy the second order request carries a takeprofit and update_trade is
\* never called; under the deferred policy the request carries none and
\* update_trade is called at most once, and never before the second order.
C7_PoliciesExclusive ==
    LET T == NewTrades
        U == UpdateTrades
    IN  /\ Len(T) < 2 => U = <<>>
        /\ Len(T) >= 2 =>
              IF USE_DIRECT_TAKE_PROFIT
              THEN "takeprofit" \in DOMAIN T[2].params /\ U = <<>>
              ELSE "takeprofit" \notin DOMAIN T[2].params /\ Len(U) <= 1

C7_Witness ==
    /\ ~USE_DIRECT_TAKE_PROFIT
    /\ pc = "Done"
    /\ Len(UpdateTrades) = 1
    /\ Len(NewTrades) = 3

\* C8: when the take-profit update of the deferred policy fails (the call
\* raises or answers without an identifier) the run stops: no order is
\* placed after it.
C8_StopAfterFailedUpdate ==
    \A i \in 1..Len(calls) :
        (IsUpdateTrade(calls[i]) /\ ~RecordWithId(calls[i].outcome)) =>
            \A j \in (i + 1)..Len(calls) : ~IsNewTrade(calls[j])

\* C9: whatever follows a successful order creation in the trace of a run
\* is a sleep of REQUEST_DELAY, never directly another venue call.
C9_SleepAfterEachOrder ==
    \A i \in 1..(Len(calls) - 1) :
        (IsNewTrade(calls[i]) /\ RecordWithId(calls[i].outcome)) =>
            calls[i + 1] = Sleep(REQUEST_DELAY)

\* C10: no exception escapes main, whatever the venue answers.
C10_MainReturnsNormally == pc # "Raised"

\* main has been entered
MainStarted == pc \notin {"LoadConfig", "ResolveKeys", "InitClient", "Exited"}

\* the credentials have been resolved and one of them is missing from both
\* the configuration file and the environment
CredentialMissing ==
    /\ LN_KEY # Unset
    /\ ~(Truthy(LN_KEY) /\ Truthy(LN_SECRET) /\ Truthy(LN_PASSPHRASE))

\* C11: a missing credential, a configuration that cannot be loaded or a
\* failed client initialisation ends the process with a non-zero status
\* before main: main only runs with a loaded configuration, three
\* credentials and a client whose test call returned, and after the exit no
\* venue call is in the trace.
C11_NoTradingAfterFailedStartup ==
    /\ CredentialMissing => pc = "Exited"
    /\ pc = "Exited" =>
          /\ exit_status.t = "num" /\ exit_status.n # 0
          /\ calls = <<>>
    /\ MainStarted =>
          /\ config.t = "dict"
          /\ ~CredentialMissing /\ LN_KEY # Unset
          /\ lnm = ClientReady
          /\ test_response # Unset
          /\ exit_status = Unset

C11_Witness ==
    /\ pc = "Exited"
    /\ config.t = "dict"
    /\ LN_KEY = Str(chars_e)
    /\ LN_SECRET = None
    /\ calls = <<>>

\* json.loads accepts the argument
Deserializes(v) == JsonLoads(v) # Exc

\* C12: parse_response never raises and always returns a mapping or a
\* sequence: a dict or list unchanged, a string that deserialises as its
\* deserialised value, the empty mapping for anything else.
C12_AlwaysStructured ==
    fn = "parse_response" =>
        /\ ret # Exc
        /\ ret.t \in {"dict", "list"}
        /\ args[1].t \in {"dict", "list"} => ret = args[1]
        /\ (args[1].t \notin {"dict", "list"} /\ Deserializes(args[1]))
              => ret = JsonLoads(args[1])
        /\ (args[1].t \notin {"dict", "list"} /\ ~Deserializes(args[1]))
              => ret = EmptyDict

\* m is a / b rounded to the nearest integer (b > 0), stated without
\* computing the quotient
IsNearest(m, a, b) ==
    LET d == IF a - m * b >= 0 THEN a - m * b ELSE m * b - a
    IN  2 * d < b \/ (2 * d = b /\ m % 2 = 0)

\* the price of the single ticker fetch of the run
FetchedPrice == market_price.n

\* C13: every order request of a run carries values derived from the one
\* pre-trade price p: margin = round(5 / p * 1e8) in all orders, take-profit
\* of the second order (direct policy) = round(p * 1.01), limit price =
\* round(p - 100), limit take-profit = round(limit price * 1.01); for
\* p = 50000 these are 10000, 50500, 49900 and 50399.
C13_ValuesFromPreTradePrice ==
    LET T == NewTrades
    IN  /\ \A i \in 1..Len(T) :
              /\ T[i].params.margin.t = "num"
              /\ IsNearest(T[i].params.margin.n, 5 * 100000000, FetchedPrice)
              /\ FetchedPrice = 50000 => T[i].params.margin.n = 10000
        /\ (Len(T) >= 2 /\ USE_DIRECT_TAKE_PROFIT) =>
              /\ IsNearest(T[2].params.takeprofit.n, 101 * FetchedPrice, 100)
              /\ FetchedPrice = 50000 => T[2].params.takeprofit.n = 50500
        /\ Len(T) >= 3 =>
              /\ T[3].params.price.n = FetchedPrice - 100
              /\ IsNearest(T[3].params.takeprofit.n,
                           101 * T[3].params.price.n, 100)
              /\ FetchedPrice = 50000 =>
                    /\ T[3].params.price.n = 49900
                    /\ T[3].params.takeprofit.n = 50399

C13_Witness ==
    /\ pc = "Done"
    /\ USE_DIRECT_TAKE_PROFIT
    /\ market_price = Num(50000)
    /\ Len(NewTrades) = 3
    /\ limit_order # None

\* the direct policy with pre-trade price 50000, and the second order has
\* been answered with an identifier and entry_price = 50010
DirectScenario ==
    /\ USE_DIRECT_TAKE_PROFIT
    /\ market_price = Num(50000)
    /\ second_order.t = "dict"
    /\ "entry_price" \in DOMAIN second_order.m
    /\ second_order.m["entry_price"] = Num(50010)

\* C14 as stated: in that scenario the target computed for the log is 50560
\* and the take-profit sent with the order is 50500.
C14_IdealTarget50560 ==
    DirectScenario =>
        /\ actual_tp_target = Num(50560)
        /\ NewTrades[2].params.takeprofit = Num(50500)

\* C14 amended: the target computed for the log is round(50010 * 1.01) =
\* 50510, and the take-profit sent with the order stays 50500.
C14_IdealTarget50510 ==
    DirectScenario =>
        /\ actual_tp_target = Num(50510)
        /\ NewTrades[2].params.takeprofit = Num(50500)
        /\ tp_price = Num(50500)
        /\ UpdateTrades = <<>>

C14_Witness ==
    /\ DirectScenario
    /\ pc = "Done"
    /\ Len(NewTrades) = 3

\* C15: every order request submitted carries a strictly positive integer
\* margin, side buy and leverage 1, and the same margin as every other
\* order of the run.
C15_PositiveEqualMargins ==
    LET T == NewTrades
    IN  \A i \in 1..Len(T) :
            /\ T[i].params.margin.t = "num"
            /\ T[i].params.margin.n > 0
            /\ T[i].params.side = "b"
            /\ T[i].params.leverage = Num(1)
            /\ \A j \in 1..Len(T) : T[j].params.margin = T[i].params.margin

C15_Witness ==
    /\ pc = "Done"
    /\ ~USE_DIRECT_TAKE_PROFIT
    /\ Len(NewTrades) = 3
    /\ limit_order = None

\* C16: every price sent in a buy order is valid for a long position: the
\* limit price is strictly positive, the take-profit of the second order is
\* strictly above the pre-trade price, the take-profit of the limit order is
\* strictly above its limit price.
C16_PricesValidForLong ==
    LET T == NewTrades
    IN  /\ (Len(T) >= 2 /\ USE_DIRECT_TAKE_PROFIT) =>
              T[2].params.takeprofit.n > FetchedPrice
        /\ Len(T) >= 3 =>
              /\ T[3].params.price.n > 0
              /\ T[3].params.takeprofit.n > T[3].params.price.n

====
